---- MODULE Spec2Model ----
(***************************************************************************)
(* Model of rainradar.py: RainRadar.nearest_rain and                       *)
(* RainRadar.search_outwards.                                              *)
(*                                                                         *)
(* An image is a record [w, h, pix] with pix a function from the pixel     *)
(* coordinates <<x, y>>, 0 <= x < w, 0 <= y < h, to a colour.  The pixel   *)
(* accessor (PIL's image.load()) is modelled by the interface the code     *)
(* relies on in its try/except: a lookup outside the image raises          *)
(* IndexError.  The generator search_outwards is a record holding the      *)
(* local variables of its frame; GenResume is one next() on it.            *)
(***************************************************************************)
EXTENDS Integers, Sequences, FiniteSets, TLC

VARIABLES image, position, pc, gen, quadrants, accessed, yielded, result

vars == <<image, position, pc, gen, quadrants, accessed, yielded, result>>

----------------------------------------------------------------------------
(* Bounds of the model *)

MaxW == 3
MaxH == 3
SparseSize == 4
SparseRain == 2
MaxD == 3
EnumCoord == 1

----------------------------------------------------------------------------
(* Colours and the palette *)

White == "white"
Red == "red"
Colours == {White, Red}

\* rain_colours(): the palette of the radar provider (here the one-colour
\* palette of the spec's scenarios).
rain_colours == {Red}

IsRainMutant(c) == c \notin rain_colours

\* `pixels[p] in rain_colours`
IsRain(c) == c \in rain_colours

----------------------------------------------------------------------------
(* Arithmetic helpers *)

Max(a, b) == IF a >= b THEN a ELSE b
Min(a, b) == IF a <= b THEN a ELSE b
Abs(a) == IF a < 0 THEN -a ELSE a

\* Python 2 cmp(a, b)
cmp(a, b) == IF a < b THEN -1 ELSE IF a > b THEN 1 ELSE 0

\* the radicand of distance(a, b)
Dist2(a, b) == (a[1] - b[1]) * (a[1] - b[1]) + (a[2] - b[2]) * (a[2] - b[2])

\* floor of the square root of a natural number
Isqrt(n) == CHOOSE k \in 0..n : k * k <= n /\ (k + 1) * (k + 1) > n

\* math.floor(self.distance(a, b))
FloorDistance(a, b) == Isqrt(Dist2(a, b))

----------------------------------------------------------------------------
(* The image and its accessor *)

Coords(w, h) == (0..(w - 1)) \X (0..(h - 1))

InRange(img, p) == p[1] >= 0 /\ p[1] < img.w /\ p[2] >= 0 /\ p[2] < img.h

IndexError == "IndexError"

\* pixels[p]: the colour at p, or IndexError outside the image
Pixel(img, p) == IF InRange(img, p) THEN img.pix[p] ELSE IndexError

MaxDistanceMutant(img) == Min(img.w, img.h)

\* max(image.size)
MaxDistance(img) == Max(img.w, img.h)

----------------------------------------------------------------------------
(* search_outwards: the generator frame and one resumption of it *)

NoGen == [center |-> <<0, 0>>, max_distance |-> 0, distance |-> 0,
          x |-> 0, y |-> 0, st |-> "none"]

\* search_outwards(center, max_distance) called: nothing runs before the
\* first next()
NewGen(center, max_distance) ==
    [center |-> center, max_distance |-> max_distance, distance |-> 0,
     x |-> 0, y |-> 0, st |-> "new"]

\* one iteration of `for distance in range(1, max_distance + 1)` entered
\* with distance = d: either the range is exhausted, or x, y are set to the
\* top left corner of the ring and the while loop yields it (x_min <= x_max
\* and y_min <= y_max since d >= 1)
StartRing(g, d) ==
    IF d > g.max_distance
    THEN [g EXCEPT !.st = "exhausted"]
    ELSE [g EXCEPT !.distance = d, !.x = g.center[1] - d,
                   !.y = g.center[2] - d, !.st = "suspended"]

AfterYieldMutant(g) ==
    LET x_min == g.center[1] - g.distance
        x_max == g.center[1] + g.distance
        y_min == g.center[2] - g.distance
    IN  IF g.y = y_min
        THEN IF g.x = x_max
             THEN [g EXCEPT !.x = x_min, !.y = g.y + 1]
             ELSE [g EXCEPT !.x = g.x + 1]
        ELSE IF g.x = x_min
             THEN [g EXCEPT !.x = x_max]
             ELSE IF g.x = x_max
                  THEN [g EXCEPT !.x = x_min, !.y = g.y + 1]
                  ELSE g

\* the statements after `yield (x,y)` up to the next evaluation of the
\* while condition
AfterYield(g) ==
    LET x_min == g.center[1] - g.distance
        x_max == g.center[1] + g.distance
        y_min == g.center[2] - g.distance
        y_max == g.center[2] + g.distance
    IN  IF g.y \in {y_min, y_max}
        THEN IF g.x = x_max
             THEN [g EXCEPT !.x = x_min, !.y = g.y + 1]
             ELSE [g EXCEPT !.x = g.x + 1]
        ELSE IF g.x = x_min
             THEN [g EXCEPT !.x = x_max]
             ELSE IF g.x = x_max
                  THEN [g EXCEPT !.x = x_min, !.y = g.y + 1]
                  ELSE g

\* next() on the generator: runs it to its next yield or to its end
GenResume(g) ==
    IF g.st = "new"
    THEN StartRing(g, 1)
    ELSE IF g.st = "suspended"
         THEN LET a == AfterYield(g)
              IN  IF a.x <= g.center[1] + g.distance
                     /\ a.y <= g.center[2] + g.distance
                  THEN a
                  ELSE StartRing(g, g.distance + 1)
         ELSE g

\* the point a suspended generator has just yielded
Yielded(g) == <<g.x, g.y>>

----------------------------------------------------------------------------
(* nearest_rain *)

EmptyMap == [k \in {} |-> <<0, 0>>]

\* the key computed for a rain pixel
QuadrantOf(point, pos) == <<cmp(point[1], pos[1]), cmp(point[2], pos[2])>>

RecordMutant(qs, quadrant, point) ==
    [k \in DOMAIN qs \cup {quadrant} |->
        IF k = quadrant THEN point ELSE qs[k]]

\* `if quadrant not in quadrants: quadrants[quadrant] = point`
Record(qs, quadrant, point) ==
    IF quadrant \in DOMAIN qs
    THEN qs
    ELSE [k \in DOMAIN qs \cup {quadrant} |->
            IF k = quadrant THEN point ELSE qs[k]]

LoopBodyMutant(qs, img, pos, point) ==
    LET c == Pixel(img, point)
    IN  IF c = IndexError
        THEN [quadrants |-> qs, raised |-> TRUE]
        ELSE IF IsRain(c)
             THEN [quadrants |-> Record(qs, QuadrantOf(point, pos), point),
                   raised |-> FALSE]
             ELSE [quadrants |-> qs, raised |-> FALSE]

\* the try/except of the loop body: the map after the body has run on
\* point, and whether an exception leaves the body
LoopBody(qs, img, pos, point) ==
    LET c == Pixel(img, point)
    IN  IF c = IndexError
        THEN [quadrants |-> qs, raised |-> FALSE]
        ELSE IF IsRain(c)
             THEN [quadrants |-> Record(qs, QuadrantOf(point, pos), point),
                   raised |-> FALSE]
             ELSE [quadrants |-> qs, raised |-> FALSE]

BreakCondMutant(qs) == Cardinality(DOMAIN qs) > 4

\* `if len(quadrants) >= 4: break`
BreakCond(qs) == Cardinality(DOMAIN qs) >= 4

\* tuple comparison of Python
KeyLE(a, b) == a[1] < b[1] \/ (a[1] = b[1] /\ a[2] <= b[2])

RECURSIVE SortedKeys(_)
\* sorted(quadrants): the keys in ascending order
SortedKeys(S) ==
    IF S = {}
    THEN <<>>
    ELSE LET m == CHOOSE k \in S : \A j \in S : KeyLE(k, j)
         IN  <<m>> \o SortedKeys(S \ {m})

\* the loop that builds the result
BuildResult(qs, pos) ==
    LET keys == SortedKeys(DOMAIN qs)
    IN  [i \in 1..Len(keys) |-> FloorDistance(qs[keys[i]], pos)]

\* `return [0, 0, 0, 0]`
RainingHere == <<0, 0, 0, 0>>

----------------------------------------------------------------------------
(* Inputs *)

DenseImages ==
    UNION { { [w |-> w, h |-> h, pix |-> p] : p \in [Coords(w, h) -> Colours] }
            : <<w, h>> \in (1..MaxW) \X (1..MaxH) }

RECURSIVE SubsetsUpTo(_, _)
SubsetsUpTo(S, n) ==
    IF n = 0
    THEN {{}}
    ELSE LET prev == SubsetsUpTo(S, n - 1)
         IN  prev \cup { R \cup {c} : R \in prev, c \in S }

SparseImages ==
    { [w |-> SparseSize, h |-> SparseSize,
       pix |-> [c \in Coords(SparseSize, SparseSize) |->
                   IF c \in R THEN Red ELSE White]]
      : R \in SubsetsUpTo(Coords(SparseSize, SparseSize), SparseRain) }

Images == DenseImages \cup SparseImages

\* the positions a caller passes: the pixels of the image and a margin of
\* one around it
Positions(img) == ((-1)..img.w) \X ((-1)..img.h)

----------------------------------------------------------------------------
(* nearest_rain as a state machine *)

Init ==
    /\ image \in Images
    /\ position \in Positions(image)
    /\ pc = "start"
    /\ gen = NoGen
    /\ quadrants = EmptyMap
    /\ accessed = <<>>
    /\ yielded = <<>>
    /\ result = <<>>

\* `pixels[position]` raises: position is outside the image and the lookup
\* is not inside a try
StartRaise ==
    /\ pc = "start"
    /\ Pixel(image, position) = IndexError
    /\ accessed' = Append(accessed, position)
    /\ pc' = "raised"
    /\ UNCHANGED <<image, position, gen, quadrants, yielded, result>>

\* it is raining at position
StartRaining ==
    /\ pc = "start"
    /\ Pixel(image, position) # IndexError
    /\ IsRain(Pixel(image, position))
    /\ accessed' = Append(accessed, position)
    /\ result' = RainingHere
    /\ pc' = "done"
    /\ UNCHANGED <<image, position, gen, quadrants, yielded>>

\* it is not: quadrants = {} and the generator is created
StartSearch ==
    /\ pc = "start"
    /\ Pixel(image, position) # IndexError
    /\ ~IsRain(Pixel(image, position))
    /\ accessed' = Append(accessed, position)
    /\ quadrants' = EmptyMap
    /\ gen' = NewGen(position, MaxDistance(image))
    /\ pc' = "scan"
    /\ UNCHANGED <<image, position, yielded, result>>

\* the for statement asks for the next point and the generator ends
ScanExhausted ==
    /\ pc = "scan"
    /\ GenResume(gen).st = "exhausted"
    /\ gen' = GenResume(gen)
    /\ pc' = "build"
    /\ UNCHANGED <<image, position, quadrants, accessed, yielded, result>>

\* the generator yields a point and the loop breaks
ScanBreak ==
    /\ pc = "scan"
    /\ GenResume(gen).st = "suspended"
    /\ BreakCond(quadrants)
    /\ gen' = GenResume(gen)
    /\ yielded' = Append(yielded, Yielded(gen'))
    /\ pc' = "build"
    /\ UNCHANGED <<image, position, quadrants, accessed, result>>

\* the generator yields a point and the body runs on it
ScanPoint ==
    /\ pc = "scan"
    /\ GenResume(gen).st = "suspended"
    /\ ~BreakCond(quadrants)
    /\ gen' = GenResume(gen)
    /\ LET point == Yielded(gen')
           out == LoopBody(quadrants, image, position, point)
       IN  /\ yielded' = Append(yielded, point)
           /\ accessed' = Append(accessed, point)
           /\ quadrants' = out.quadrants
           /\ pc' = IF out.raised THEN "raised" ELSE "scan"
    /\ UNCHANGED <<image, position, result>>

\* the result is built and returned
Build ==
    /\ pc = "build"
    /\ result' = BuildResult(quadrants, position)
    /\ pc' = "done"
    /\ UNCHANGED <<image, position, gen, quadrants, accessed, yielded>>

Next ==
    \/ StartRaise
    \/ StartRaining
    \/ StartSearch
    \/ ScanExhausted
    \/ ScanBreak
    \/ ScanPoint
    \/ Build

Spec == Init /\ [][Next]_vars

----------------------------------------------------------------------------
(* search_outwards on its own, for any center and max_distance *)

EnumCenters == ((-EnumCoord)..EnumCoord) \X ((-EnumCoord)..EnumCoord)

InitEnum ==
    /\ image = [w |-> 1, h |-> 1, pix |-> [c \in Coords(1, 1) |-> White]]
    /\ position \in EnumCenters
    /\ pc = "enum"
    /\ gen \in { NewGen(position, D) : D \in 0..MaxD }
    /\ quadrants = EmptyMap
    /\ accessed = <<>>
    /\ yielded = <<>>
    /\ result = <<>>

\* a consumer that takes every point: `for point in search_outwards(..)`
EnumNext ==
    /\ pc = "enum"
    /\ gen.st # "exhausted"
    /\ gen' = GenResume(gen)
    /\ yielded' = IF gen'.st = "suspended"
                  THEN Append(yielded, Yielded(gen'))
                  ELSE yielded
    /\ UNCHANGED <<image, position, pc, quadrants, accessed, result>>

NextEnum == EnumNext

SpecEnum == InitEnum /\ [][NextEnum]_vars

----------------------------------------------------------------------------
(* Vocabulary of the properties *)

NW == <<-1, -1>>
SW == <<-1, 1>>
NE == <<1, -1>>
SE == <<1, 1>>
QuadrantOrder == <<NW, SW, NE, SE>>
Diagonal == {NW, SW, NE, SE}

\* nearest_rain has gone past the test of the center
Searched == gen.st # "none"

CenterInside == InRange(image, position)

Range(f) == { f[k] : k \in DOMAIN f }

Chebyshev(p, c) == Max(Abs(p[1] - c[1]), Abs(p[2] - c[2]))

\* p lies strictly inside quadrant q of the center
InQuadrant(p, q) ==
    /\ (p[1] - position[1]) * q[1] > 0
    /\ (p[2] - position[2]) * q[2] > 0

RainPixels == { p \in Coords(image.w, image.h) : image.pix[p] \in rain_colours }

RainIn(q) == { p \in RainPixels : InQuadrant(p, q) }

\* floor of the least Euclidean distance from the center to the rain of q
FloorNearest(q) ==
    LET best == CHOOSE p \in RainIn(q) :
                    \A o \in RainIn(q) : Dist2(p, position) <= Dist2(o, position)
    IN  Isqrt(Dist2(best, position))

\* the element of the result that comes from key q of the map
ReportedFor(q) ==
    result[1 + Cardinality({ k \in DOMAIN quadrants : k # q /\ KeyLE(k, q) })]

Times(p) == Cardinality({ i \in 1..Len(accessed) : accessed[i] = p })

RECURSIVE Drain(_)
\* every point a fresh generator yields until it ends
Drain(g) ==
    LET n == GenResume(g)
    IN  IF n.st = "suspended" THEN <<Yielded(n)>> \o Drain(n) ELSE <<>>

\* the rain pixels of the image lying in the sign class k of the center
SameKey(p, k) ==
    /\ cmp(p[1], position[1]) = k[1]
    /\ cmp(p[2], position[2]) = k[2]

FirstRain(order, k) ==
    LET hits == { i \in 1..Len(order) :
                    order[i] \in RainPixels /\ SameKey(order[i], k) }
    IN  order[CHOOSE i \in hits : \A j \in hits : i <= j]

----------------------------------------------------------------------------
(* Properties *)

\* C1: for every quadrant NW, SW, NE, SE for which nearest_rain reports a
\* value, that value is floor(d), d the least Euclidean distance from the
\* center to a rain pixel of the quadrant.
C1_ReportsFloorOfNearest ==
    (pc = "done" /\ Searched) =>
        \A q \in Diagonal \cap DOMAIN quadrants : ReportedFor(q) = FloorNearest(q)

\* C2: when the pixel at the center is rain, nearest_rain returns
\* [0, 0, 0, 0], the spiral search is never started and the center is the
\* only pixel read.
C2_RainingAtCenter ==
    (CenterInside /\ image.pix[position] \in rain_colours) =>
        /\ pc \in {"start", "done"}
        /\ gen = NoGen
        /\ yielded = <<>>
        /\ pc = "start" => accessed = <<>>
        /\ pc = "done" => (result = <<0, 0, 0, 0>> /\ accessed = <<position>>)

C2_Witness ==
    /\ pc = "done"
    /\ image.pix[position] \in rain_colours
    /\ \E p \in RainPixels : p # position
    /\ \E p \in Coords(image.w, image.h) : p \notin RainPixels

\* C3: the result is the list of the floored distances to the positions
\* recorded for NW, SW, NE, SE, in that order, a quadrant without a
\* recorded position contributing nothing.
C3_FixedQuadrantOrder ==
    (pc = "done" /\ Searched) =>
        LET present == SelectSeq(QuadrantOrder, LAMBDA q : q \in DOMAIN quadrants)
        IN  result = [i \in 1..Len(present) |->
                         Isqrt(Dist2(quadrants[present[i]], position))]

\* C4: search_outwards yields the points at Chebyshev distance 1..D of the
\* center and no other, each once, ring r before ring r + 1; when it ends
\* it has yielded all of them (4 D (D + 1) points).
C4_RingsCoveredOnce ==
    LET c == gen.center
        D == gen.max_distance
        n == Len(yielded)
    IN  /\ \A i \in 1..n :
              /\ Chebyshev(yielded[i], c) >= 1
              /\ Chebyshev(yielded[i], c) <= D
        /\ \A i \in 1..n : \A j \in (i + 1)..n :
              /\ yielded[i] # yielded[j]
              /\ Chebyshev(yielded[i], c) <= Chebyshev(yielded[j], c)
        /\ gen.st = "exhausted" =>
              /\ n = 4 * D * (D + 1)
              /\ Range(yielded) =
                    { p \in ((c[1] - D)..(c[1] + D)) \X ((c[2] - D)..(c[2] + D)) :
                        Chebyshev(p, c) >= 1 }

C4_Witness ==
    /\ pc = "enum"
    /\ gen.st = "exhausted"
    /\ gen.max_distance >= 2
    /\ \E i \in 1..Len(yielded) : yielded[i][1] < 0 /\ yielded[i][2] < 0

\* C5: a rain pixel on the row or the column of the center never enters
\* the quadrant result map, hence neither the result nor the count of four
\* that stops the scan.
C5_AxisPixelsInvisible ==
    \A k \in DOMAIN quadrants : k[1] # 0 /\ k[2] # 0

\* C6: once the quadrant result map holds 4 entries no pixel is read any
\* more, and the last pixel read is the one whose recording brought the
\* map to 4 entries.
C6_EarlyTermination ==
    /\ [][Cardinality(DOMAIN quadrants) = 4 =>
            (accessed' = accessed /\ quadrants' = quadrants)]_vars
    /\ [](Cardinality(DOMAIN quadrants) = 4 =>
            accessed[Len(accessed)] \in Range(quadrants))

C6_Witness ==
    /\ pc = "done"
    /\ Cardinality(DOMAIN quadrants) = 4
    /\ gen.st = "suspended"
    /\ \E p \in Coords(image.w, image.h) : Times(p) = 0

\* C7: a point outside the image is skipped: the read of it leaves the
\* quadrant result map as it was and the scan goes on; no exception leaves
\* nearest_rain once the scan has started.
C7_OutOfRangeSkipped ==
    /\ [][(pc = "scan" /\ accessed' # accessed
             /\ ~InRange(image, accessed'[Len(accessed')]))
            => (quadrants' = quadrants /\ pc' = "scan")]_vars
    /\ [](Searched => pc # "raised")

C7_Witness ==
    /\ pc = "done"
    /\ position = <<0, 0>>
    /\ image.w >= 2
    /\ image.h >= 2
    /\ \E i \in 1..Len(accessed) : accessed[i][1] < 0 \/ accessed[i][2] < 0
    /\ Len(result) >= 1

\* C8: the quadrant result map never holds more than 4 entries, the result
\* has one element per entry of the map and so at most 4 elements.
C8_AtMostFour ==
    /\ Cardinality(DOMAIN quadrants) <= 4
    /\ Len(result) <= 4
    /\ (pc = "done" /\ Searched) => Len(result) = Cardinality(DOMAIN quadrants)

C8_Witness ==
    /\ pc = "done"
    /\ Cardinality(DOMAIN quadrants) = 4
    /\ LET p == yielded[Len(yielded)]
       IN  /\ p \in RainPixels
           /\ QuadrantOf(p, position) \notin DOMAIN quadrants

\* C9: a position recorded under a key is never replaced or removed, and
\* at the end it is the first rain pixel with that key in the order of
\* search_outwards.
C9_FirstFoundPermanent ==
    /\ [][\A k \in DOMAIN quadrants :
            k \in DOMAIN quadrants' /\ quadrants'[k] = quadrants[k]]_vars
    /\ []((pc = "done" /\ Searched) =>
            \A k \in DOMAIN quadrants :
                quadrants[k] =
                    FirstRain(Drain(NewGen(position, Max(image.w, image.h))), k))

C9_Witness ==
    /\ pc = "done"
    /\ \E k \in DOMAIN quadrants :
          \E i \in 1..Len(accessed) :
              /\ accessed[i] \in RainPixels
              /\ SameKey(accessed[i], k)
              /\ accessed[i] # quadrants[k]

\* C10: when the generator is exhausted, every pixel of the image but the
\* center has been read exactly once, and every quadrant NW, SW, NE, SE
\* that holds rain has a recorded position.
C10_RadiusCoversImage ==
    (pc \in {"build", "done"} /\ gen.st = "exhausted") =>
        /\ \A p \in Coords(image.w, image.h) \ {position} : Times(p) = 1
        /\ \A q \in Diagonal : RainIn(q) # {} => q \in DOMAIN quadrants

C10_Witness ==
    /\ pc = "done"
    /\ gen.st = "exhausted"
    /\ image.w # image.h
    /\ \E q \in Diagonal : RainIn(q) # {}
    /\ \E q \in Diagonal : RainIn(q) = {}

====
